---------------------------- MODULE Spec2Model ----------------------------
(***************************************************************************)
(* Model of shamir_verify (src/code.cpp, and its earlier variant           *)
(* src/unnamed/part_000): the exact fraction type Frac, the Gauss-Jordan   *)
(* solver interpolate_and_check, the subset search find_valid_constant,    *)
(* and the per-record driver solve_one_json_string / main.                 *)
(*                                                                         *)
(* Three specifications share the variables:                               *)
(*   FracSpec   any sequence of Frac constructions and + - * /             *)
(*   Spec       one call of find_valid_constant, one subset per step       *)
(*   BatchSpec  main's loop over the records of one input                  *)
(***************************************************************************)
EXTENDS Integers, Sequences, FiniteSets, TLC

VARIABLES
    \* ---- FracSpec: two existing fractions and the last operation
    lhs, rhs, exc, op,
    \* ---- Spec: one call of find_valid_constant
    xs_full, ys_full, k, choose, pc, examined, found, constant_out, coeffs,
    poly,
    \* ---- BatchSpec: main
    objects, done, out, outcomes, mpc, anyPrinted,
    \* ---- PairSpec: the call of find_valid_constant of src/unnamed/part_000
    \* on the same xs_full, ys_full and k
    choose_000, pc_000, examined_000, found_000, constant_out_000, coeffs_000

fvars == <<lhs, rhs, exc, op>>
svars == <<xs_full, ys_full, k, choose, pc, examined, found, constant_out, coeffs,
           poly>>
bvars == <<objects, done, out, outcomes, mpc, anyPrinted>>
pvars == <<choose_000, pc_000, examined_000, found_000, constant_out_000,
           coeffs_000>>
vars  == <<fvars, svars, bvars, pvars>>

-----------------------------------------------------------------------------
(* Bounds of the model *)

\* Frac constructor arguments are drawn from -MaxArg..MaxArg
MaxArg == 3
\* an arithmetic operation is applied only to operands whose numerator and
\* denominator are at most MaxMag in magnitude (cpp_int itself is unbounded)
MaxMag == 4
\* find_valid_constant is given at most MaxN points
MaxN == 3
\* x-coordinates are drawn from 0..XMax, in ascending order as
\* solve_one_json_string collects them
XMax == 4
\* y-coordinates of arbitrary points are drawn from 0..YMax
YMax == 3
\* coefficients of a sampled polynomial are drawn from -CMax..CMax
CMax == 1
\* an input holds at most MaxBatch records
MaxBatch == 2
\* a record declares at most MaxShares shares
MaxShares == 3

-----------------------------------------------------------------------------
(* Integer helpers: cpp_int arithmetic *)

Abs(x) == IF x < 0 THEN -x ELSE x

\* cpp_int operator/ : truncation toward zero (b # 0)
TruncDiv(a, b) ==
    LET q == Abs(a) \div Abs(b)
    IN  IF (a < 0) = (b < 0) THEN q ELSE -q

-----------------------------------------------------------------------------
(* struct Frac *)

\* a thrown std::runtime_error, carried instead of a value
Thrown(msg) == [exc |-> msg]
IsThrown(r) == "exc" \in DOMAIN r

\* mutant of gcd_abs: the loop never runs and b's factor is lost
gcd_abs_NoLoop(a, b) == IF Abs(a) = 0 THEN Abs(b) ELSE 1

RECURSIVE gcd_abs(_, _)
gcd_abs(a, b) ==
    IF a < 0 THEN gcd_abs(-a, b)
    ELSE IF b < 0 THEN gcd_abs(a, -b)
    ELSE IF b # 0 THEN gcd_abs(b, a % b)
    ELSE a

\* mutant of the constructor: a zero denominator is let through as 1
Frac_NoZeroCheck(n, d) ==
    LET d1 == IF d = 0 THEN 1 ELSE d
        n2 == IF d1 < 0 THEN -n ELSE n
        d2 == IF d1 < 0 THEN -d1 ELSE d1
        g  == gcd_abs(IF n2 < 0 THEN -n2 ELSE n2, d2)
    IN  [num |-> TruncDiv(n2, g), den |-> TruncDiv(d2, g)]

\* Frac(cpp_int n = 0, cpp_int d = 1)
Frac(n, d) ==
    IF d = 0 THEN Thrown("zero denominator")
    ELSE LET n2 == IF d < 0 THEN -n ELSE n
             d2 == IF d < 0 THEN -d ELSE d
             g  == gcd_abs(IF n2 < 0 THEN -n2 ELSE n2, d2)
         IN  [num |-> TruncDiv(n2, g), den |-> TruncDiv(d2, g)]

\* operator+
FracAdd(a, o) ==
    IF IsThrown(a) THEN a ELSE IF IsThrown(o) THEN o
    ELSE Frac(a.num * o.den + o.num * a.den, a.den * o.den)

\* operator-
FracSub(a, o) ==
    IF IsThrown(a) THEN a ELSE IF IsThrown(o) THEN o
    ELSE Frac(a.num * o.den - o.num * a.den, a.den * o.den)

\* operator*
FracMul(a, o) ==
    IF IsThrown(a) THEN a ELSE IF IsThrown(o) THEN o
    ELSE Frac(a.num * o.num, a.den * o.den)

\* mutant of FracDiv: the quotient is taken the wrong way round
FracDiv_Inverted(a, o) ==
    IF IsThrown(a) THEN a ELSE IF IsThrown(o) THEN o
    ELSE IF o.num = 0 THEN Thrown("division by zero fraction")
    ELSE Frac(a.den * o.num, a.num * o.den)

\* operator/
FracDiv(a, o) ==
    IF IsThrown(a) THEN a ELSE IF IsThrown(o) THEN o
    ELSE IF o.num = 0 THEN Thrown("division by zero fraction")
    ELSE Frac(a.num * o.den, a.den * o.num)

isInteger(f) == f.den = 1

-----------------------------------------------------------------------------
(* FracSpec: fractions are constructed and combined in any order.  lhs and *)
(* rhs are two existing fractions; op records the last operation and exc   *)
(* the exception it threw ("none" when it returned a value).               *)

NoOp == [name |-> "init", n |-> 0, d |-> 1]

Small(f) == Abs(f.num) <= MaxMag /\ f.den <= MaxMag

SearchIdle ==
    /\ xs_full = <<>> /\ ys_full = <<>> /\ k = 0 /\ choose = <<>>
    /\ pc = "idle" /\ examined = <<>> /\ found = FALSE
    /\ constant_out = 0 /\ coeffs = <<>> /\ poly = <<>>

BatchIdle ==
    /\ objects = <<>> /\ done = 0 /\ out = <<>>
    /\ outcomes = <<>> /\ mpc = "idle" /\ anyPrinted = FALSE

Idle_000 ==
    /\ choose_000 = <<>> /\ pc_000 = "idle" /\ examined_000 = <<>>
    /\ found_000 = FALSE /\ constant_out_000 = 0 /\ coeffs_000 = <<>>

FracInit ==
    /\ lhs = Frac(0, 1)
    /\ rhs = Frac(0, 1)
    /\ exc = "none"
    /\ op = NoOp
    /\ SearchIdle
    /\ BatchIdle
    /\ Idle_000

\* the value of an expression is stored only if no exception left it
Store(r, oldv) == IF IsThrown(r) THEN oldv ELSE r
Raised(r) == IF IsThrown(r) THEN r.exc ELSE "none"

\* lhs = Frac(n, d)
ConstructLhs ==
    \E n \in -MaxArg..MaxArg, d \in -MaxArg..MaxArg :
        LET r == Frac(n, d)
        IN  /\ lhs' = Store(r, lhs)
            /\ exc' = Raised(r)
            /\ op' = [name |-> "construct", n |-> n, d |-> d]
            /\ UNCHANGED <<rhs, svars, bvars, pvars>>

\* rhs = Frac(n, d)
ConstructRhs ==
    \E n \in -MaxArg..MaxArg, d \in -MaxArg..MaxArg :
        LET r == Frac(n, d)
        IN  /\ rhs' = Store(r, rhs)
            /\ exc' = Raised(r)
            /\ op' = [name |-> "construct", n |-> n, d |-> d]
            /\ UNCHANGED <<lhs, svars, bvars, pvars>>

Binary(name, r) ==
    /\ Small(lhs) /\ Small(rhs)
    /\ lhs' = Store(r, lhs)
    /\ exc' = Raised(r)
    /\ op' = [name |-> name, n |-> 0, d |-> 1]
    /\ UNCHANGED <<rhs, svars, bvars, pvars>>

\* lhs = lhs + rhs
Add == Binary("add", FracAdd(lhs, rhs))
\* lhs = lhs - rhs
Sub == Binary("sub", FracSub(lhs, rhs))
\* lhs = lhs * rhs
Mul == Binary("mul", FracMul(lhs, rhs))
\* lhs = lhs / rhs
Div == Binary("div", FracDiv(lhs, rhs))

FracNext == ConstructLhs \/ ConstructRhs \/ Add \/ Sub \/ Mul \/ Div

FracSpec == FracInit /\ [][FracNext]_vars

-----------------------------------------------------------------------------
(* interpolate_and_check.  Vectors and the matrix are sequences, so index  *)
(* i of the model is index i-1 of the source: A[i][j] holds x_i^(j-1) for  *)
(* j <= kk and y_i for j = kk+1.                                           *)

\* a sequence given as a function, evaluated once into a tuple (TLC would
\* otherwise re-evaluate each entry on every access)
Tuple(f) == f \o <<>>

\* `power` after e executions of power *= xs[i]
RECURSIVE Power(_, _)
Power(x, e) == IF e = 0 THEN 1 ELSE Power(x, e - 1) * x

\* mutant of BuildMatrix: the power is multiplied before it is stored
BuildMatrix_PowerFirst(xs, ys) ==
    LET kk == Len(xs)
    IN  Tuple([i \in 1..kk |->
            Tuple([j \in 1..kk + 1 |->
                IF j <= kk THEN Frac(Power(xs[i], j), 1) ELSE Frac(ys[i], 1)])])

\* the augmented matrix
BuildMatrix(xs, ys) ==
    LET kk == Len(xs)
    IN  Tuple([i \in 1..kk |->
            Tuple([j \in 1..kk + 1 |->
                IF j <= kk THEN Frac(Power(xs[i], j - 1), 1) ELSE Frac(ys[i], 1)])])

\* the pivot search: the first row from `row` down with a non-zero entry in
\* col, or `row` itself when there is none
SelectPivot(A, row, col, kk) ==
    LET nz == {r \in row..kk : A[r][col].num # 0}
    IN  IF nz = {} THEN row ELSE CHOOSE r \in nz : \A q \in nz : r <= q

SwapRows(A, i, j) == [A EXCEPT ![i] = A[j], ![j] = A[i]]

\* A[row][c] = A[row][c] / pivot for c = col..k
NormalizeRow(A, row, col, kk) ==
    LET pivot == A[row][col]
    IN  [A EXCEPT ![row] =
            Tuple([c \in 1..kk + 1 |->
                IF c >= col THEN FracDiv(A[row][c], pivot) ELSE A[row][c]])]

\* mutant of EliminateColumn: only the rows below the pivot are reduced
EliminateColumn_BelowOnly(A, row, col, kk) ==
    Tuple([r \in 1..kk |->
        IF r <= row \/ A[r][col].num = 0 THEN A[r]
        ELSE LET factor == A[r][col]
             IN  Tuple([c \in 1..kk + 1 |->
                     IF c >= col
                     THEN FracSub(A[r][c], FracMul(factor, A[row][c]))
                     ELSE A[r][c]])])

\* every other row r: A[r][c] = A[r][c] - factor * A[row][c] for c = col..k
EliminateColumn(A, row, col, kk) ==
    Tuple([r \in 1..kk |->
        IF r = row \/ A[r][col].num = 0 THEN A[r]
        ELSE LET factor == A[r][col]
             IN  Tuple([c \in 1..kk + 1 |->
                     IF c >= col
                     THEN FracSub(A[r][c], FracMul(factor, A[row][c]))
                     ELSE A[r][c]])])

\* the exceptions among the entries of a matrix
ThrownIn(A, kk) ==
    {A[r][c].exc : <<r, c>> \in {rc \in (1..kk) \X (1..kk + 1) :
                                    IsThrown(A[rc[1]][rc[2]])}}

\* one pass of the elimination loop, for column col (row = col throughout):
\* status "next" with the matrix after the pass, "singular" when the pivot
\* check returns, "threw" when a Frac operation throws
ColumnPass(A, col, kk) ==
    LET sel == SelectPivot(A, col, col, kk)
    IN  IF A[sel][col].num = 0
        THEN [status |-> "singular", A |-> A, exc |-> "none"]
        ELSE
          LET B == IF sel # col THEN SwapRows(A, sel, col) ELSE A
              N == NormalizeRow(B, col, col, kk)
          IN  IF ThrownIn(N, kk) # {}
              THEN [status |-> "threw", A |-> A,
                    exc |-> CHOOSE e \in ThrownIn(N, kk) : TRUE]
              ELSE
                LET E == EliminateColumn(N, col, col, kk)
                IN  IF ThrownIn(E, kk) # {}
                    THEN [status |-> "threw", A |-> A,
                          exc |-> CHOOSE e \in ThrownIn(E, kk) : TRUE]
                    ELSE [status |-> "next", A |-> E, exc |-> "none"]

\* the elimination loop from column col on.  (The pass is bound through a
\* one-element set so that TLC evaluates it once.)
RECURSIVE GaussJordan(_, _, _)
GaussJordan(A, col, kk) ==
    IF col > kk THEN [status |-> "solved", A |-> A, exc |-> "none"]
    ELSE CHOOSE g \in {IF p.status = "next" THEN GaussJordan(p.A, col + 1, kk)
                       ELSE p : p \in {ColumnPass(A, col, kk)}} : TRUE

\* mutant of validate: the policy of the earlier variant, which also
\* required every coefficient to be strictly positive
validate_RequirePositive(out_coeff) ==
    \A i \in 1..Len(out_coeff) :
        isInteger(out_coeff[i]) /\ ~(out_coeff[i].num <= 0)

\* mutant of validate: nothing is checked
validate_AcceptAll(out_coeff) == Len(out_coeff) >= 0

\* the validation loop of src/code.cpp: every coefficient is an integer
validate(out_coeff) ==
    \A i \in 1..Len(out_coeff) : isInteger(out_coeff[i])

\* ret: the value returned; out_coeff: the output vector (left empty when
\* the function returns before assigning it); exc: the exception that left
\* the function, "none" if it returned; singular: the pivot check returned
interpolate_and_check(xs, ys) ==
    LET kk == Len(xs)
        Result(g) ==
            IF g.status = "threw"
            THEN [ret |-> FALSE, out_coeff |-> <<>>, exc |-> g.exc,
                  singular |-> FALSE]
            ELSE IF g.status = "singular"
            THEN [ret |-> FALSE, out_coeff |-> <<>>, exc |-> "none",
                  singular |-> TRUE]
            ELSE LET oc == Tuple([i \in 1..kk |-> g.A[i][kk + 1]])
                 IN  [ret |-> validate(oc), out_coeff |-> oc, exc |-> "none",
                      singular |-> FALSE]
    IN  CHOOSE r \in {Result(GaussJordan(A, 1, kk)) :
                         A \in {BuildMatrix(xs, ys)}} : TRUE

-----------------------------------------------------------------------------
(* find_valid_constant *)

Reverse(a) == [i \in 1..Len(a) |-> a[Len(a) + 1 - i]]

\* mutant of prev_permutation: std::next_permutation is called instead
prev_permutation_Next(a) ==
    LET n   == Len(a)
        asc == {i \in 1..n - 1 : a[i] < a[i + 1]}
    IN  IF asc = {} THEN [more |-> FALSE, a |-> Reverse(a)]
        ELSE
          LET i == CHOOSE x \in asc : \A y \in asc : y <= x
              higher == {j \in i + 1..n : a[j] > a[i]}
              j == CHOOSE x \in higher : \A y \in higher : y <= x
              sw == [a EXCEPT ![i] = a[j], ![j] = a[i]]
          IN  [more |-> TRUE,
               a |-> [p \in 1..n |-> IF p <= i THEN sw[p] ELSE sw[n + i + 1 - p]]]

\* std::prev_permutation on the whole vector: the lexicographically next
\* smaller arrangement and true, or the largest arrangement and false
prev_permutation(a) ==
    LET n    == Len(a)
        desc == {i \in 1..n - 1 : a[i] > a[i + 1]}
    IN  IF desc = {} THEN [more |-> FALSE, a |-> Reverse(a)]
        ELSE
          LET i == CHOOSE x \in desc : \A y \in desc : y <= x
              lower == {j \in i + 1..n : a[j] < a[i]}
              j == CHOOSE x \in lower : \A y \in lower : y <= x
              sw == [a EXCEPT ![i] = a[j], ![j] = a[i]]
          IN  [more |-> TRUE,
               a |-> [p \in 1..n |-> IF p <= i THEN sw[p] ELSE sw[n + i + 1 - p]]]

\* mutant of InitialChoose: the k ones are sorted to the right
InitialChoose_Ascending(n, kk) == [i \in 1..n |-> IF i > n - kk THEN 1 ELSE 0]

\* vector<int> choose(n, 0); choose[i] = 1 for i < k; sort descending
InitialChoose(n, kk) ==
    LET filled == [i \in 1..n |-> IF i <= kk THEN 1 ELSE 0]
        ones   == Cardinality({i \in 1..n : filled[i] = 1})
    IN  [i \in 1..n |-> IF i <= ones THEN 1 ELSE 0]

\* the positions a mask selects, and the points at them in position order
Selected(mask) == {i \in 1..Len(mask) : mask[i] # 0}

RECURSIVE Gather(_, _, _)
Gather(v, mask, i) ==
    IF i > Len(mask) THEN <<>>
    ELSE IF mask[i] # 0 THEN <<v[i]>> \o Gather(v, mask, i + 1)
    ELSE Gather(v, mask, i + 1)

-----------------------------------------------------------------------------
(* Spec: one call find_valid_constant(xs_full, ys_full, k, constant_out).  *)
(* pc: "entry" before the call, "loop" at the head of the do-while body,   *)
(* "done" after return, "threw" if an exception left the call.  examined   *)
(* lists, in order, the subsets handed to interpolate_and_check and what   *)
(* it returned; poly is the polynomial the points were sampled from, or    *)
(* <<>> for arbitrary points.                                              *)

AscSeqs(S, n) == {s \in [1..n -> S] : \A i \in 1..n - 1 : s[i] < s[i + 1]}

EvalPoly(c, x) ==
    LET RECURSIVE Horner(_)
        Horner(j) == IF j > Len(c) THEN 0 ELSE c[j] + x * Horner(j + 1)
    IN  Horner(1)

\* arbitrary points, with every threshold up to one more than their number
BoxInputs ==
    UNION {{[xs |-> xs, ys |-> ys, k |-> kk, poly |-> <<>>] :
               xs \in AscSeqs(0..XMax, n), ys \in [1..n -> 0..YMax],
               kk \in 1..n + 1} : n \in 1..MaxN}

\* k points sampled from a polynomial with k integer coefficients
PolyInputs ==
    UNION {{[xs |-> xs, ys |-> [i \in 1..n |-> EvalPoly(c, xs[i])], k |-> n,
             poly |-> c] :
               xs \in AscSeqs(0..XMax, n), c \in [1..n -> -CMax..CMax]} :
           n \in 1..MaxN}

\* the two worked examples of the specification
Example1 == [xs |-> <<1, 2, 3>>, ys |-> <<3, 6, 11>>, k |-> 3, poly |-> <<>>]
Example2 == [xs |-> <<1, 2, 3, 4>>, ys |-> <<5, 8, 13, 20>>, k |-> 3, poly |-> <<>>]

Inputs == BoxInputs \cup PolyInputs \cup {Example1, Example2}

FracIdle == lhs = Frac(0, 1) /\ rhs = Frac(0, 1) /\ exc = "none" /\ op = NoOp

Init ==
    /\ \E inp \in Inputs :
          /\ xs_full = inp.xs
          /\ ys_full = inp.ys
          /\ k = inp.k
          /\ poly = inp.poly
    /\ choose = <<>>
    /\ pc = "entry"
    /\ examined = <<>>
    /\ found = FALSE
    /\ constant_out = 0
    /\ coeffs = <<>>
    /\ FracIdle
    /\ BatchIdle
    /\ Idle_000

\* entry of find_valid_constant up to the do-while loop
Enter ==
    /\ pc = "entry"
    /\ IF k > Len(xs_full)
       THEN /\ pc' = "done"
            /\ found' = FALSE
            /\ UNCHANGED choose
       ELSE /\ choose' = InitialChoose(Len(xs_full), k)
            /\ pc' = "loop"
            /\ UNCHANGED found
    /\ UNCHANGED <<xs_full, ys_full, k, examined, constant_out, coeffs, poly,
                   fvars, bvars, pvars>>

\* one pass of the do-while body and its loop condition
Attempt ==
    /\ pc = "loop"
    /\ \E r \in {interpolate_and_check(Gather(xs_full, choose, 1),
                                       Gather(ys_full, choose, 1))},
          pp \in {prev_permutation(choose)} :
           /\ examined' = Append(examined, [pos |-> Selected(choose), ok |-> r.ret])
           /\ coeffs' = r.out_coeff
           /\ IF r.exc # "none"
              THEN /\ pc' = "threw"
                   /\ UNCHANGED <<found, constant_out, choose>>
              ELSE IF r.ret
              THEN /\ constant_out' = r.out_coeff[1].num
                   /\ found' = TRUE
                   /\ pc' = "done"
                   /\ UNCHANGED choose
              ELSE /\ choose' = pp.a
                   /\ pc' = IF pp.more THEN "loop" ELSE "done"
                   /\ UNCHANGED <<found, constant_out>>
    /\ UNCHANGED <<xs_full, ys_full, k, poly, fvars, bvars, pvars>>

Next == Enter \/ Attempt

Spec == Init /\ [][Next]_vars

-----------------------------------------------------------------------------
(* PairSpec: the same points and threshold are given to the two variants   *)
(* of the program, find_valid_constant of src/code.cpp (Enter, Attempt)    *)
(* and find_valid_constant of src/unnamed/part_000 (Enter_000,             *)
(* Attempt_000), whose steps interleave in any order.  The two sources     *)
(* differ in the validation loop of interpolate_and_check only.            *)

\* mutant of validate_000: only the sign of the numerators is checked
validate_000_PositiveOnly(out_coeff) ==
    \A i \in 1..Len(out_coeff) : ~(out_coeff[i].num <= 0)

\* the validation loop of part_000: every coefficient is an integer and
\* strictly positive
validate_000(out_coeff) ==
    \A i \in 1..Len(out_coeff) :
        isInteger(out_coeff[i]) /\ ~(out_coeff[i].num <= 0)

interpolate_and_check_000(xs, ys) ==
    LET kk == Len(xs)
        Result(g) ==
            IF g.status = "threw"
            THEN [ret |-> FALSE, out_coeff |-> <<>>, exc |-> g.exc,
                  singular |-> FALSE]
            ELSE IF g.status = "singular"
            THEN [ret |-> FALSE, out_coeff |-> <<>>, exc |-> "none",
                  singular |-> TRUE]
            ELSE LET oc == Tuple([i \in 1..kk |-> g.A[i][kk + 1]])
                 IN  [ret |-> validate_000(oc), out_coeff |-> oc,
                      exc |-> "none", singular |-> FALSE]
    IN  CHOOSE r \in {Result(GaussJordan(A, 1, kk)) :
                         A \in {BuildMatrix(xs, ys)}} : TRUE

PairInit ==
    /\ \E inp \in Inputs :
          /\ xs_full = inp.xs
          /\ ys_full = inp.ys
          /\ k = inp.k
          /\ poly = inp.poly
    /\ choose = <<>> /\ choose_000 = <<>>
    /\ pc = "entry" /\ pc_000 = "entry"
    /\ examined = <<>> /\ examined_000 = <<>>
    /\ found = FALSE /\ found_000 = FALSE
    /\ constant_out = 0 /\ constant_out_000 = 0
    /\ coeffs = <<>> /\ coeffs_000 = <<>>
    /\ FracIdle
    /\ BatchIdle

\* entry of find_valid_constant of part_000 up to the do-while loop
Enter_000 ==
    /\ pc_000 = "entry"
    /\ IF k > Len(xs_full)
       THEN /\ pc_000' = "done"
            /\ found_000' = FALSE
            /\ UNCHANGED choose_000
       ELSE /\ choose_000' = InitialChoose(Len(xs_full), k)
            /\ pc_000' = "loop"
            /\ UNCHANGED found_000
    /\ UNCHANGED <<examined_000, constant_out_000, coeffs_000,
                   fvars, svars, bvars>>

\* one pass of its do-while body and loop condition
Attempt_000 ==
    /\ pc_000 = "loop"
    /\ \E r \in {interpolate_and_check_000(Gather(xs_full, choose_000, 1),
                                           Gather(ys_full, choose_000, 1))},
          pp \in {prev_permutation(choose_000)} :
           /\ examined_000' = Append(examined_000,
                                     [pos |-> Selected(choose_000), ok |-> r.ret])
           /\ coeffs_000' = r.out_coeff
           /\ IF r.exc # "none"
              THEN /\ pc_000' = "threw"
                   /\ UNCHANGED <<found_000, constant_out_000, choose_000>>
              ELSE IF r.ret
              THEN /\ constant_out_000' = r.out_coeff[1].num
                   /\ found_000' = TRUE
                   /\ pc_000' = "done"
                   /\ UNCHANGED choose_000
              ELSE /\ choose_000' = pp.a
                   /\ pc_000' = IF pp.more THEN "loop" ELSE "done"
                   /\ UNCHANGED <<found_000, constant_out_000>>
    /\ UNCHANGED <<fvars, svars, bvars>>

PairNext == Enter \/ Attempt \/ Enter_000 \/ Attempt_000

PairSpec == PairInit /\ [][PairNext]_vars

-----------------------------------------------------------------------------
(* solve_one_json_string and main.  A string is a sequence of characters.  *)
(* A record is the object text as the scanner reads it: keys is whether    *)
(* "keys", "n" and "k" are found; n and k are the integers after them;     *)
(* shares[idx] is the entry under key "idx", or Absent.  An entry holds    *)
(* its base (quoted or a bare number) and its value string.                *)

DecimalDigits == <<"0", "1", "2", "3", "4", "5", "6", "7", "8", "9">>
LowerLetters ==
    <<"a", "b", "c", "d", "e", "f", "g", "h", "i", "j", "k", "l", "m",
      "n", "o", "p", "q", "r", "s", "t", "u", "v", "w", "x", "y", "z">>
UpperLetters ==
    <<"A", "B", "C", "D", "E", "F", "G", "H", "I", "J", "K", "L", "M",
      "N", "O", "P", "Q", "R", "S", "T", "U", "V", "W", "X", "Y", "Z">>

IndexIn(tbl, ch) == CHOOSE i \in 1..Len(tbl) : tbl[i] = ch
Occurs(tbl, ch) == \E i \in 1..Len(tbl) : tbl[i] = ch
isspace(ch) == ch = " "
isdigit(ch) == Occurs(DecimalDigits, ch)

\* the loop of parse_in_base_cpp from character i on, val so far
RECURSIVE parse_from(_, _, _, _)
parse_from(s_raw, base, i, val) ==
    IF i > Len(s_raw) THEN [val |-> val, exc |-> "none"]
    ELSE LET ch == s_raw[i]
         IN  IF isspace(ch) THEN parse_from(s_raw, base, i + 1, val)
             ELSE IF ~(isdigit(ch) \/ Occurs(LowerLetters, ch)
                                   \/ Occurs(UpperLetters, ch))
             THEN [val |-> 0, exc |-> "invalid digit"]
             ELSE LET d == IF isdigit(ch) THEN IndexIn(DecimalDigits, ch) - 1
                           ELSE IF Occurs(LowerLetters, ch)
                           THEN IndexIn(LowerLetters, ch) - 1 + 10
                           ELSE IndexIn(UpperLetters, ch) - 1 + 10
                  IN  IF d < 0 \/ d >= base
                      THEN [val |-> 0, exc |-> "digit >= base in parse_in_base_cpp"]
                      ELSE parse_from(s_raw, base, i + 1, val * base + d)

parse_in_base_cpp(s_raw, base) == parse_from(s_raw, base, 1, 0)

\* std::stoi on a string of an optional sign and digits: the number its
\* leading digits spell, or std::invalid_argument when there are none
stoi(str) ==
    LET neg  == Len(str) >= 1 /\ str[1] = "-"
        from == IF Len(str) >= 1 /\ str[1] \in {"-", "+"} THEN 2 ELSE 1
        RECURSIVE Run(_, _)
        Run(i, acc) ==
            IF i <= Len(str) /\ isdigit(str[i])
            THEN Run(i + 1, acc * 10 + (IndexIn(DecimalDigits, str[i]) - 1))
            ELSE [upto |-> i, acc |-> acc]
        r == Run(from, 0)
    IN  IF r.upto = from THEN [val |-> 0, exc |-> "stoi"]
        ELSE [val |-> IF neg THEN -r.acc ELSE r.acc, exc |-> "none"]

\* the run of digits and '-' at the head of a string
RECURSIVE NumberRun(_, _)
NumberRun(str, i) ==
    IF i <= Len(str) /\ (isdigit(str[i]) \/ str[i] = "-")
    THEN <<str[i]>> \o NumberRun(str, i + 1)
    ELSE <<>>

\* the base of an entry: stoi of the quoted string after "base", and when
\* that throws, stoi of the number run that follows the colon.  After a
\* bare number the quoted string found is the next key, "value".
BaseOf(entry) ==
    LET base_str == IF entry.quoted THEN entry.base ELSE <<"v", "a", "l", "u", "e">>
        first    == stoi(base_str)
    IN  IF first.exc = "none" THEN first
        ELSE stoi(IF entry.quoted THEN <<>> ELSE NumberRun(entry.base, 1))

\* cpp_int_to_string
cpp_int_to_string(v) ==
    LET RECURSIVE Rev(_)
        \* the digits pushed by the while loop, least significant first
        Rev(t) == IF t > 0 THEN <<DecimalDigits[(t % 10) + 1]>> \o Rev(t \div 10)
                  ELSE <<>>
        pushed == Rev(Abs(v)) \o (IF v < 0 THEN <<"-">> ELSE <<>>)
    IN  IF v = 0 THEN <<"0">> ELSE Reverse(pushed)

\* find_valid_constant as a function: the loop from mask on, after `tried`
\* calls of interpolate_and_check
RECURSIVE search_from(_, _, _, _)
search_from(xs, ys, mask, tried) ==
    CHOOSE res \in
        {IF r.exc # "none"
         THEN [found |-> FALSE, constant |-> 0, attempts |-> tried + 1, exc |-> r.exc]
         ELSE IF r.ret
         THEN [found |-> TRUE, constant |-> r.out_coeff[1].num,
               attempts |-> tried + 1, exc |-> "none"]
         ELSE IF prev_permutation(mask).more
         THEN search_from(xs, ys, prev_permutation(mask).a, tried + 1)
         ELSE [found |-> FALSE, constant |-> 0, attempts |-> tried + 1, exc |-> "none"]
         : r \in {interpolate_and_check(Gather(xs, mask, 1), Gather(ys, mask, 1))}}
      : TRUE

find_valid_constant(xs, ys, kk) ==
    IF kk > Len(xs)
    THEN [found |-> FALSE, constant |-> 0, attempts |-> 0, exc |-> "none"]
    ELSE search_from(xs, ys, InitialChoose(Len(xs), kk), 0)

Absent == [present |-> FALSE]

\* the loop over idx = 1..n from idx on: the points collected, or the
\* exception that ended it
RECURSIVE collect(_, _, _, _)
collect(rec, idx, xs, ys) ==
    IF idx > rec.n THEN [xs |-> xs, ys |-> ys, exc |-> "none"]
    ELSE IF ~rec.shares[idx].present THEN collect(rec, idx + 1, xs, ys)
    ELSE LET b == BaseOf(rec.shares[idx])
         IN  IF b.exc # "none" THEN [xs |-> xs, ys |-> ys, exc |-> b.exc]
             ELSE LET y == parse_in_base_cpp(rec.shares[idx].value, b.val)
                  IN  IF y.exc # "none" THEN [xs |-> xs, ys |-> ys, exc |-> y.exc]
                      ELSE collect(rec, idx + 1, Append(xs, idx), Append(ys, y.val))

\* ret and out_constant_str are what the caller receives; exc is the
\* exception that left the function instead; at names the return statement
\* taken and attempts counts the calls of interpolate_and_check
Returned(ret, str, at, attempts) ==
    [ret |-> ret, out_constant_str |-> str, exc |-> "none", at |-> at,
     attempts |-> attempts]

solve_one_json_string(rec) ==
    IF ~rec.keys THEN Returned(FALSE, <<>>, "Malformed", 0)
    ELSE IF rec.n <= 0 \/ rec.k <= 0 THEN Returned(FALSE, <<>>, "Malformed", 0)
    ELSE
      LET pts == collect(rec, 1, <<>>, <<>>)
      IN  IF pts.exc # "none"
          THEN [ret |-> FALSE, out_constant_str |-> <<>>, exc |-> pts.exc,
                at |-> "Thrown", attempts |-> 0]
          ELSE IF Len(pts.xs) < rec.k
          THEN Returned(FALSE, <<>>, "InsufficientPoints", 0)
          ELSE
            LET f == find_valid_constant(pts.xs, pts.ys, rec.k)
            IN  IF f.exc # "none"
                THEN [ret |-> FALSE, out_constant_str |-> <<>>, exc |-> f.exc,
                      at |-> "Thrown", attempts |-> f.attempts]
                ELSE IF ~f.found
                THEN Returned(FALSE, <<>>, "NoConsistentSubset", f.attempts)
                ELSE Returned(TRUE, cpp_int_to_string(f.constant), "Ok", f.attempts)

-----------------------------------------------------------------------------
(* BatchSpec: main on an input of up to MaxBatch records.  objects is     *)
(* what split_json_objects returned, done counts the records handled, out  *)
(* is the lines written to cout, outcomes what solve_one_json_string did   *)
(* for each record.  mpc: "read" before the input is split, "loop" in the  *)
(* for loop, "exit" after main returned, "aborted" after std::terminate.   *)

Share(quoted, base, value) ==
    [present |-> TRUE, quoted |-> quoted, base |-> base, value |-> value]

\* the decimal values 1 and 2
PlainEntries ==
    { Absent,
      Share(TRUE, <<"1", "0">>, <<"1">>),
      Share(TRUE, <<"1", "0">>, <<"2">>) }

\* a bare base 10, a digit that is not below its base, a base that is no
\* number
OddEntries ==
    { Share(FALSE, <<"1", "0">>, <<"1", "2">>),
      Share(TRUE, <<"2">>, <<"1", "2">>),
      Share(TRUE, <<"x">>, <<"1">>) }

\* no "keys" object; n = 0
NoKeys == [keys |-> FALSE, n |-> 0, k |-> 0, shares |-> <<>>]
NoCounts == [keys |-> TRUE, n |-> 0, k |-> 0, shares |-> <<>>]

\* records of MaxShares declared shares, at most one of them odd
ShareMaps ==
    {sh \in [1..MaxShares -> PlainEntries \cup OddEntries] :
        Cardinality({i \in 1..MaxShares : sh[i] \in OddEntries}) <= 1}

Records ==
    {NoKeys, NoCounts} \cup
    [keys : {TRUE}, n : {MaxShares}, k : 1..MaxShares + 1, shares : ShareMaps]

ErrorLine == <<"E", "R", "R", "O", "R">>

BatchInit ==
    /\ objects \in UNION {[1..b -> Records] : b \in 0..MaxBatch}
    /\ done = 0
    /\ out = <<>>
    /\ outcomes = <<>>
    /\ mpc = "read"
    /\ anyPrinted = FALSE
    /\ FracIdle
    /\ SearchIdle
    /\ Idle_000

\* main up to the for loop: with no object in the input it returns 1
ReadInput ==
    /\ mpc = "read"
    /\ mpc' = IF Len(objects) = 0 THEN "exit" ELSE "loop"
    /\ UNCHANGED <<objects, done, out, outcomes, anyPrinted, fvars, svars, pvars>>

\* one pass of the for loop.  An exception leaving solve_one_json_string is
\* caught nowhere: std::terminate ends the process, and of the lines
\* buffered in cout any prefix may have reached the output.
ProcessRecord ==
    /\ mpc = "loop"
    /\ done < Len(objects)
    /\ \E r \in {solve_one_json_string(objects[done + 1])} :
          /\ outcomes' = Append(outcomes, r)
          /\ IF r.exc # "none"
             THEN /\ mpc' = "aborted"
                  /\ \E p \in 0..Len(out) : out' = SubSeq(out, 1, p)
                  /\ UNCHANGED <<done, anyPrinted>>
             ELSE /\ out' = Append(out, IF r.ret THEN r.out_constant_str
                                        ELSE ErrorLine)
                  /\ anyPrinted' = (anyPrinted \/ r.ret)
                  /\ done' = done + 1
                  /\ UNCHANGED mpc
    /\ UNCHANGED <<objects, fvars, svars, pvars>>

\* return anyPrinted ? 0 : 1
Return ==
    /\ mpc = "loop"
    /\ done = Len(objects)
    /\ mpc' = "exit"
    /\ UNCHANGED <<objects, done, out, outcomes, anyPrinted, fvars, svars, pvars>>

BatchNext == ReadInput \/ ProcessRecord \/ Return

BatchSpec == BatchInit /\ [][BatchNext]_vars

-----------------------------------------------------------------------------
(* What the claims about the search speak of *)

n_full == Len(xs_full)

\* the k-subsets of the positions, and their lexicographic order (as
\* ascending position lists): S precedes T iff the least position in which
\* they differ belongs to S
KSubsets == {S \in SUBSET (1..n_full) : Cardinality(S) = k}
LexLess(S, T) ==
    /\ S # T
    /\ LET D == (S \ T) \cup (T \ S)
       IN  (CHOOSE x \in D : \A y \in D : x <= y) \in S

MaskOf(S) == [i \in 1..n_full |-> IF i \in S THEN 1 ELSE 0]
XsAt(S) == Gather(xs_full, MaskOf(S), 1)
YsAt(S) == Gather(ys_full, MaskOf(S), 1)

\* Newton's divided difference f[x_i..x_j] of the points (xs, ys), in
\* integers: int is false as soon as a division is not exact.  For integer
\* nodes the interpolating polynomial of degree < Len(xs) has integer
\* coefficients iff every divided difference is an integer.
RECURSIVE DivDiff(_, _, _, _)
DivDiff(xs, ys, i, j) ==
    IF i = j THEN [int |-> TRUE, val |-> ys[i]]
    ELSE LET hi == DivDiff(xs, ys, i + 1, j)
             lo == DivDiff(xs, ys, i, j - 1)
             nu == hi.val - lo.val
             de == xs[j] - xs[i]
         IN  IF hi.int /\ lo.int /\ nu % Abs(de) = 0
             THEN [int |-> TRUE, val |-> TruncDiv(nu, de)]
             ELSE [int |-> FALSE, val |-> 0]

\* the points lie on a polynomial with Len(xs) integer coefficients
IntegerFit(xs, ys) == DivDiff(xs, ys, 1, Len(xs)).int

\* p(0) for that polynomial, from its Newton form
RECURSIVE NewtonAtZero(_, _, _)
NewtonAtZero(xs, ys, j) ==
    IF j > Len(xs) THEN 0
    ELSE LET RECURSIVE Prod(_)
             Prod(i) == IF i >= j THEN 1 ELSE (0 - xs[i]) * Prod(i + 1)
         IN  DivDiff(xs, ys, 1, j).val * Prod(1) + NewtonAtZero(xs, ys, j + 1)

SecretOf(S) == NewtonAtZero(XsAt(S), YsAt(S), 1)

Last(q) == q[Len(q)]

\* sum_j c[j].num * x^(j-1) for a vector of fractions with denominator 1
EvalCoeffs(c, x) == EvalPoly([j \in 1..Len(c) |-> c[j].num], x)

-----------------------------------------------------------------------------
FirstAcceptedWins ==
    (pc \in {"loop", "done"} /\ k <= n_full) =>
        LET L == Len(examined)
        IN  /\ L >= 1 => examined[1].pos = 1..k
            /\ \A i \in 1..L :
                  /\ examined[i].pos \in KSubsets
                  /\ {T \in KSubsets : LexLess(T, examined[i].pos)}
                        = {examined[j].pos : j \in 1..i - 1}
            /\ \A i \in 1..L - 1 : ~examined[i].ok
            /\ (L >= 1 /\ examined[L].ok) =>
                  /\ pc = "done" /\ found
                  /\ constant_out = SecretOf(examined[L].pos)
            /\ (pc = "done" /\ found) => (L >= 1 /\ examined[L].ok)
            /\ pc = "loop" => L < Cardinality(KSubsets)

\* a subset accepted after a rejected one and before the last of the order
FirstAcceptedWinsWitness ==
    /\ pc = "done" /\ found
    /\ Len(examined) >= 2
    /\ Len(examined) < Cardinality(KSubsets)

\* C5: with k <= n the search reports failure iff each of the C(n,k)
\* subsets was examined exactly once and rejected; if no k-subset lies on a
\* polynomial with k integer coefficients the result is failure; and the
\* search terminates: no exception leaves it, and each pass of the loop
\* examines a subset not examined before, so there are at most C(n,k).
ExhaustiveFailure ==
    /\ (pc = "done" /\ k <= n_full) =>
          /\ ~found <=>
                /\ Len(examined) = Cardinality(KSubsets)
                /\ {examined[i].pos : i \in 1..Len(examined)} = KSubsets
                /\ \A i \in 1..Len(examined) : ~examined[i].ok
          /\ (\A S \in KSubsets : ~IntegerFit(XsAt(S), YsAt(S))) => ~found
    /\ pc \in {"entry", "loop", "done"}
    /\ pc = "entry" => examined = <<>>
    /\ k <= n_full =>
          /\ Len(examined) <= Cardinality(KSubsets)
          /\ \A i, j \in 1..Len(examined) :
                i # j => examined[i].pos # examined[j].pos

\* a failure after three or more subsets, none of which fits
ExhaustiveFailureWitness ==
    /\ pc = "done" /\ ~found /\ k <= n_full
    /\ Len(examined) >= 3
    /\ \A S \in KSubsets : ~IntegerFit(XsAt(S), YsAt(S))

AtExample1 == xs_full = Example1.xs /\ ys_full = Example1.ys /\ k = Example1.k
AtExample2 == xs_full = Example2.xs /\ ys_full = Example2.ys /\ k = Example2.k

\* C8 as stated: for {(1,3), (2,6), (3,11)} and threshold 3 the engine
\* succeeds with secret 1.
Example1SecretIsOne ==
    (AtExample1 /\ pc = "done") => (found /\ constant_out = 1)

\* C8 as amended: for {(1,3), (2,6), (3,11)} and threshold 3 the engine
\* succeeds with secret 2, the constant term of p(x) = x^2 + 2.
Example1SecretIsTwo ==
    (AtExample1 /\ pc = "done") =>
        /\ found /\ constant_out = 2
        /\ coeffs = <<Frac(2, 1), Frac(0, 1), Frac(1, 1)>>

Example1Witness == AtExample1 /\ pc = "done" /\ found /\ Len(examined) = 1

\* C9 as stated: for {(1,5), (2,8), (3,13), (4,20)} and threshold 3 the
\* first subset {(1,5), (2,8), (3,13)} is accepted and the secret is 2.
Example2SecretIsTwo ==
    (AtExample2 /\ pc = "done") =>
        /\ found
        /\ examined = <<[pos |-> {1, 2, 3}, ok |-> TRUE]>>
        /\ constant_out = 2

\* C9 as amended: the first subset {(1,5), (2,8), (3,13)} is accepted as
\* fitting p(x) = x^2 + 4, and the secret is 4.
Example2SecretIsFour ==
    (AtExample2 /\ pc = "done") =>
        /\ found
        /\ examined = <<[pos |-> {1, 2, 3}, ok |-> TRUE]>>
        /\ constant_out = 4
        /\ coeffs = <<Frac(4, 1), Frac(0, 1), Frac(1, 1)>>

Example2Witness ==
    AtExample2 /\ pc = "done" /\ found /\ Last(examined).pos = {1, 2, 3}

\* C10: whenever interpolate_and_check accepts k points, out_coeff holds k
\* coefficients of denominator 1 whose polynomial passes through each of
\* the k points, and the secret returned is its constant term.
AcceptedSubsetSound ==
    (Len(examined) >= 1 /\ Last(examined).ok) =>
        /\ Len(coeffs) = k
        /\ \A j \in 1..Len(coeffs) : coeffs[j].den = 1
        /\ \A i \in Last(examined).pos :
              EvalCoeffs(coeffs, xs_full[i]) = ys_full[i]
        /\ found /\ constant_out = coeffs[1].num

\* a subset accepted after a rejected one, whose polynomial has a negative
\* coefficient
AcceptedSubsetSoundWitness ==
    /\ Len(examined) >= 2 /\ Last(examined).ok
    /\ k >= 2
    /\ \E j \in 1..Len(coeffs) : coeffs[j].num < 0

\* C11: the points of a subset have pairwise distinct x, and for them the
\* elimination never takes the singular return of the pivot check and no
\* Frac constructor or division throws: every call of interpolate_and_check
\* returns with out_coeff assigned (k entries), and it returns false only
\* because the validation met a coefficient that is not an integer.
NoInternalFailure ==
    /\ \A i, j \in 1..n_full : i # j => xs_full[i] # xs_full[j]
    /\ pc # "threw"
    /\ Len(examined) >= 1 =>
          /\ Len(coeffs) = k
          /\ \A j \in 1..k : ~IsThrown(coeffs[j]) /\ coeffs[j].den > 0
          /\ ~Last(examined).ok => \E j \in 1..k : coeffs[j].den # 1

\* three points were solved, with a zero among the x and a solution that
\* is not integral, and the subset was rejected
NoInternalFailureWitness ==
    /\ Len(examined) >= 1 /\ ~Last(examined).ok
    /\ k = 3 /\ Len(coeffs) = 3
    /\ \E i \in Last(examined).pos : xs_full[i] = 0
    /\ \E j \in 1..3 : coeffs[j].den > 1 /\ coeffs[j].num < 0

-----------------------------------------------------------------------------
(* Claims about Frac, under FracSpec *)

\* den > 0 and no common divisor above 1 (so zero is 0/1)
Reduced(f) ==
    /\ f.den > 0
    /\ \A g \in 2..f.den : ~(f.num % g = 0 /\ f.den % g = 0)
    /\ f.num = 0 => f.den = 1

\* C3: every Frac that exists after a construction or after any sequence
\* of + - * / has den > 0 and gcd(|num|, den) = 1; zero is stored as 0/1.
FracReduced == Reduced(lhs) /\ Reduced(rhs)

\* a quotient by a negative fraction that is negative and no integer
FracReducedWitness ==
    /\ op.name = "div" /\ exc = "none"
    /\ lhs.num < 0 /\ lhs.den > 1
    /\ rhs.num < -1

DivisionByZero == {"zero denominator", "division by zero fraction"}

\* C4: constructing a Frac with denominator 0, and dividing by a Frac whose
\* numerator is 0, throws instead of producing a value, and leaves both
\* operands and every other fraction as they were; nothing else throws.
DivisionByZeroContained ==
    [][ /\ (op'.name = "construct" /\ op'.d = 0) =>
              (exc' = "zero denominator" /\ lhs' = lhs /\ rhs' = rhs)
        /\ (op'.name = "div" /\ rhs.num = 0) =>
              (exc' = "division by zero fraction" /\ lhs' = lhs /\ rhs' = rhs)
        /\ exc' \in DivisionByZero =>
              \/ op'.name = "construct" /\ op'.d = 0
              \/ op'.name = "div" /\ rhs.num = 0
      ]_vars

\* a division of a non-zero fraction by zero has just thrown
DivisionByZeroWitness ==
    /\ op.name = "div" /\ exc = "division by zero fraction"
    /\ rhs.num = 0 /\ lhs.num # 0 /\ lhs.den > 1

-----------------------------------------------------------------------------
(* Claims about main and solve_one_json_string, under BatchSpec *)

\* what the caller of solve_one_json_string receives
Received(r) == <<r.ret, r.out_constant_str>>

\* C6: a record with fewer points than its threshold ends with an outcome
\* of its own, InsufficientPoints, which the caller can tell from
\* NoConsistentSubset and from a malformed-input failure, and
\* interpolate_and_check is not called for it.
InsufficientPointsDistinct ==
    \A i \in 1..Len(outcomes) :
        outcomes[i].at = "InsufficientPoints" =>
            /\ outcomes[i].attempts = 0
            /\ \A j \in 1..Len(outcomes) :
                  outcomes[j].at \in {"NoConsistentSubset", "Malformed"} =>
                      /\ Received(outcomes[i]) # Received(outcomes[j])
                      /\ out[i] # out[j]

\* C7: a record that fails, a malformed one included, never keeps the
\* records after it from being handled: when the program has ended, every
\* one of the m records was handled and out holds m lines, one per record.
BatchIndependent ==
    mpc \in {"exit", "aborted"} =>
        /\ done = Len(objects)
        /\ Len(out) = Len(objects)
        /\ Len(outcomes) = Len(objects)

-----------------------------------------------------------------------------
(* The two validation policies side by side, under PairSpec *)

\* C12: on the same points and threshold, once both variants have
\* returned: if the variant of part_000 found a secret then the variant of
\* src/code.cpp found one too, the subset it accepted is the one part_000
\* accepted or an earlier one of the enumeration, and if the two subsets
\* are the same so are the two secrets.
PolicyRelation ==
    /\ pc_000 # "threw"
    /\ (pc = "done" /\ pc_000 = "done" /\ found_000) =>
          /\ found
          /\ Len(examined) <= Len(examined_000)
          /\ \/ Last(examined).pos = Last(examined_000).pos
             \/ LexLess(Last(examined).pos, Last(examined_000).pos)
          /\ Last(examined).pos = Last(examined_000).pos =>
                constant_out = constant_out_000

\* both variants found a secret, src/code.cpp from a strictly earlier
\* subset and with a different value
PolicyRelationWitness ==
    /\ pc = "done" /\ pc_000 = "done" /\ found /\ found_000
    /\ k >= 2
    /\ Len(examined) < Len(examined_000)
    /\ constant_out # constant_out_000


=============================================================================
